---- MODULE Spec2Model ----
(***************************************************************************)
(* A model of src/btree.py: the page-based B+Tree prototype (create,       *)
(* search, insert) together with its leaf codec and the pickle-based Pair  *)
(* codec.  Bytes are integers 0..255.  Page ids are 0-based and page id p  *)
(* is stored at index p + 1 of `pages` and `dirty`.  `last` records the    *)
(* last call and its outcome, `inserted` the arguments of the inserts that *)
(* returned normally, `pc` the position of the __main__ demonstration.     *)
(***************************************************************************)
EXTENDS Integers, Sequences, FiniteSets, TLC

VARIABLES pages, dirty, meta_page_id, last, inserted, pc

vars == <<pages, dirty, meta_page_id, last, inserted, pc>>

-----------------------------------------------------------------------------
(* Program constants *)

PAGE_SIZE == 4096

LEAF_NODE_MAX_PAIRS == 2

BRANCH_NODE_MAX_KEYS == 2

(* Bounds of the model *)

MaxKeys == 3

MaxListLen == 2

MaxPrePages == 1

(* Python's None, and the empty bytes object used where a field is unused *)
None == <<>>

NoBytes == <<>>

-----------------------------------------------------------------------------
(* Byte-level helpers: Python slices, struct.pack / struct.unpack *)

(* The element of a one-element set.  TheOne({e(x) : x \in {v}}) is e(v) with
   v computed once. *)
TheOne(S) == CHOOSE x \in S : TRUE

Min(a, b) == IF a <= b THEN a ELSE b

Max(a, b) == IF a >= b THEN a ELSE b

(* data[a:b] of a bytes object: 0-based, clipped to the length *)
Slice(buf, a, b) == SubSeq(buf, Min(a, Len(buf)) + 1, Min(b, Len(buf)))

(* A page buffer (Buffer.page, a bytearray) of `size` bytes.  `data` holds
   the bytes up to the last non-zero one; every byte after it is zero. *)
PageOf(size, data) == [size |-> size, data |-> data]

(* The length of the first n bytes of a sequence without their trailing zeros *)
RECURSIVE StripLen(_, _)
StripLen(bytes, n) ==
    IF n = 0 THEN 0 ELSE IF bytes[n] # 0 THEN n ELSE StripLen(bytes, n - 1)

(* The first n bytes of the buffer (n <= page.size) *)
PagePrefix(page, n) ==
    IF n <= Len(page.data) THEN SubSeq(page.data, 1, n)
    ELSE page.data \o [i \in 1..(n - Len(page.data)) |-> 0]

(* page[a:b]: 0-based, clipped to the length of the buffer *)
PageSlice(page, a, b) ==
    LET lo == Min(a, page.size)
        hi == Min(b, page.size)
    IN  IF hi <= Len(page.data) THEN SubSeq(page.data, lo + 1, hi)
        ELSE SubSeq(PagePrefix(page, hi), lo + 1, hi)

(* page[a:b] = bytes on a bytearray (a <= b): the slice is replaced, so a
   write that reaches past the end makes the buffer longer *)
SliceAssign(page, a, b, bytes) ==
    LET lo  == Min(a, page.size)
        hi  == Min(b, page.size)
        all == PagePrefix(page, lo) \o bytes \o SubSeq(page.data, hi + 1, Len(page.data))
    IN  PageOf(page.size + lo + Len(bytes) - hi, SubSeq(all, 1, StripLen(all, Len(all))))

(* struct.pack('>I', n): four bytes, big-endian (0 <= n < 2^31 here) *)
PackI(n) == << n \div 16777216, (n \div 65536) % 256, (n \div 256) % 256, n % 256 >>

(* struct.unpack('>I', b)[0]: needs exactly four bytes (struct.error otherwise,
   modelled as -1) *)
UnpackI(b) ==
    IF Len(b) = 4
    THEN b[1] * 16777216 + b[2] * 65536 + b[3] * 256 + b[4]
    ELSE -1

(* Eight bytes, little-endian: the FRAME length of a pickle (0 <= n < 2^31
   here, so the upper four bytes are zero) *)
PackLE8(n) == [i \in 1..8 |-> IF i <= 4 THEN (n \div (256 ^ (i - 1))) % 256 ELSE 0]

RECURSIVE UnpackLE(_)
UnpackLE(b) == IF Len(b) = 0 THEN 0 ELSE b[1] + 256 * UnpackLE(Tail(b))

(* PageId.to_bytes / PageId.from_bytes of the disk module: eight bytes *)
PageIdToBytes(pid) == PackLE8(pid)

PageIdFromBytes(b) == UnpackLE(b)

(* bytes comparison a < b: lexicographic on unsigned bytes, a proper prefix
   is smaller *)
RECURSIVE BytesLess(_, _)
BytesLess(a, b) ==
    IF Len(b) = 0 THEN FALSE
    ELSE IF Len(a) = 0 THEN TRUE
    ELSE IF a[1] # b[1] THEN a[1] < b[1]
    ELSE BytesLess(Tail(a), Tail(b))

-----------------------------------------------------------------------------
(* Pair and its pickle codec (protocol 4, class __main__.Pair) *)

Pair(key, value) == [key |-> key, value |-> value]

(* PROTO 4, FRAME *)
PickleProto == <<128, 4, 149>>

(* SHORT_BINUNICODE '__main__' MEMOIZE SHORT_BINUNICODE 'Pair' MEMOIZE
   STACK_GLOBAL MEMOIZE EMPTY_TUPLE NEWOBJ MEMOIZE EMPTY_DICT MEMOIZE MARK
   SHORT_BINUNICODE 'key' MEMOIZE *)
PickleClassHeader ==
    <<140, 8, 95, 95, 109, 97, 105, 110, 95, 95, 148,
      140, 4, 80, 97, 105, 114, 148, 147, 148, 41, 129, 148, 125, 148,
      40, 140, 3, 107, 101, 121, 148>>

(* SHORT_BINUNICODE 'value' MEMOIZE *)
PickleValueHeader == <<140, 5, 118, 97, 108, 117, 101, 148>>

(* SETITEMS BUILD STOP *)
PickleTrailer == <<117, 98, 46>>

(* SHORT_BINBYTES len data MEMOIZE for fewer than 256 bytes, else BINBYTES
   with a 4-byte little-endian length *)
PickleBytes(b) ==
    IF Len(b) < 256 THEN <<67, Len(b)>> \o b \o <<148>>
    ELSE <<66>> \o SubSeq(PackLE8(Len(b)), 1, 4) \o b \o <<148>>

(* BINGET 6: the key object again.  CPython keeps one object per bytes value
   of length <= 1, so an equal value of that length is the memoized key *)
PickleSameObject(key, value) == value = key /\ Len(key) <= 1

PickleBody(p) ==
    PickleClassHeader \o PickleBytes(p.key) \o PickleValueHeader
      \o (IF PickleSameObject(p.key, p.value) THEN <<104, 6>> ELSE PickleBytes(p.value))
      \o PickleTrailer

(* Pair.to_bytes: pickle.dumps(self) *)
to_bytes(p) == PickleProto \o PackLE8(Len(PickleBody(p))) \o PickleBody(p)

(* A bytes object at offset pos of a pickle body: the length of its opcode
   and length field, and the length it declares *)
BytesHeader(body, pos) == IF Slice(body, pos, pos + 1) = <<66>> THEN 5 ELSE 2

BytesLength(body, pos) ==
    IF Slice(body, pos, pos + 1) = <<66>> THEN UnpackLE(Slice(body, pos + 1, pos + 5))
    ELSE IF Len(body) >= pos + 2 THEN body[pos + 2] ELSE 0

(* Pair.from_bytes: pickle.loads(data).  The result is [ok, key, value];
   ok = FALSE stands for the exception pickle raises on data that is not a
   complete pickle of a Pair. *)
BadPair == [ok |-> FALSE, key |-> NoBytes, value |-> NoBytes]

from_bytes(data) ==
    LET hl   == Len(PickleClassHeader)
        vl   == Len(PickleValueHeader)
        body == Slice(data, 11, Len(data))
        n    == UnpackLE(Slice(data, 3, 11))
        kh   == BytesHeader(body, hl)
        klen == BytesLength(body, hl)
        key  == Slice(body, hl + kh, hl + kh + klen)
        vpos == hl + kh + klen + 1 + vl
        same == Slice(body, vpos, vpos + 2) = <<104, 6>>
        vh   == BytesHeader(body, vpos)
        vlen == BytesLength(body, vpos)
        value == IF same THEN key ELSE Slice(body, vpos + vh, vpos + vh + vlen)
        vend == IF same THEN vpos + 2 ELSE vpos + vh + vlen + 1
    IN  IF /\ Len(data) >= 11
           /\ Slice(data, 0, 3) = PickleProto
           /\ Len(body) >= n
           /\ Slice(body, 0, hl) = PickleClassHeader
           /\ Slice(body, hl, hl + 1) \in {<<66>>, <<67>>}
           /\ Slice(body, hl + kh + klen, hl + kh + klen + 1) = <<148>>
           /\ Slice(body, hl + kh + klen + 1, vpos) = PickleValueHeader
           /\ (same \/ (/\ Slice(body, vpos, vpos + 1) \in {<<66>>, <<67>>}
                        /\ Slice(body, vpos + vh + vlen, vpos + vh + vlen + 1) = <<148>>))
           /\ Slice(body, vend, vend + 3) = PickleTrailer
           /\ n = vend + 3
        THEN [ok |-> TRUE, key |-> key, value |-> value]
        ELSE BadPair

-----------------------------------------------------------------------------
(* Leaf codec *)

NoError == "none"

(* The loop of get_pairs: n entries left to read, starting at offset *)
RECURSIVE GetPairsFrom(_, _, _, _)
GetPairsFrom(page, offset, n, acc) ==
    IF n = 0 THEN [err |-> NoError, pairs |-> acc]
    ELSE TheOne({
        IF pair_size < 0 THEN [err |-> "struct.error", pairs |-> acc]
        ELSE TheOne({
            IF ~pair.ok THEN [err |-> "UnpicklingError", pairs |-> acc]
            ELSE GetPairsFrom(page, offset + 4 + pair_size, n - 1,
                              Append(acc, Pair(pair.key, pair.value)))
            : pair \in {from_bytes(PageSlice(page, offset + 4, offset + 4 + pair_size))} })
        : pair_size \in {UnpackI(PageSlice(page, offset, offset + 4))} })

get_pairs(page) ==
    TheOne({
        IF num_pairs < 0 THEN [err |-> "struct.error", pairs |-> <<>>]
        ELSE GetPairsFrom(page, 8, num_pairs, <<>>)
        : num_pairs \in {UnpackI(PageSlice(page, 4, 8))} })

(* The loop of set_leaf advancing by pair_size alone, without the four bytes
   of the length *)
RECURSIVE SetLeafFrom_short_step(_, _, _)
SetLeafFrom_short_step(page, offset, pairs) ==
    IF pairs = <<>> THEN page
    ELSE TheOne({
        TheOne({
            SetLeafFrom_short_step(p2, offset + Len(pair_data), Tail(pairs))
            : p2 \in {SliceAssign(p1, offset + 4, offset + 4 + Len(pair_data), pair_data)} })
        : pair_data \in {to_bytes(Head(pairs))},
          p1 \in {SliceAssign(page, offset, offset + 4, PackI(Len(to_bytes(Head(pairs)))))} })

(* The loop of set_leaf *)
RECURSIVE SetLeafFrom(_, _, _)
SetLeafFrom(page, offset, pairs) ==
    IF pairs = <<>> THEN page
    ELSE TheOne({
        TheOne({
            SetLeafFrom(p2, offset + 4 + Len(pair_data), Tail(pairs))
            : p2 \in {SliceAssign(p1, offset + 4, offset + 4 + Len(pair_data), pair_data)} })
        : pair_data \in {to_bytes(Head(pairs))},
          p1 \in {SliceAssign(page, offset, offset + 4, PackI(Len(to_bytes(Head(pairs)))))} })

(* set_leaf without its first statement: the entry count is left as it was *)
set_leaf_stale_count(page, pairs) == TheOne({SetLeafFrom(p0, 8, pairs) : p0 \in {page}})

set_leaf(page, pairs) ==
    TheOne({SetLeafFrom(p0, 8, pairs) : p0 \in {SliceAssign(page, 4, 8, PackI(Len(pairs)))}})

(* The bytes set_leaf writes for a list of pairs: header and entries *)
RECURSIVE LeafSize(_)
LeafSize(pairs) ==
    IF pairs = <<>> THEN 8 ELSE 4 + Len(to_bytes(Head(pairs))) + LeafSize(Tail(pairs))

(* pairs.sort(key=lambda p: p.key): a stable sort on the key *)
RECURSIVE SortedInsert(_, _)
SortedInsert(sorted, p) ==
    IF sorted = <<>> THEN <<p>>
    ELSE IF BytesLess(p.key, Head(sorted).key) THEN <<p>> \o sorted
    ELSE <<Head(sorted)>> \o SortedInsert(Tail(sorted), p)

(* insert_internal without its pairs.sort(...) *)
SortPairs_none(pairs) == pairs

RECURSIVE SortPairs(_)
SortPairs(pairs) ==
    IF pairs = <<>> THEN <<>>
    ELSE TheOne({SortedInsert(sorted, pairs[Len(pairs)])
                 : sorted \in {SortPairs(SubSeq(pairs, 1, Len(pairs) - 1))}})

-----------------------------------------------------------------------------
(* The buffer pool as the tree uses it: pages and their dirty flags *)

(* bytearray(PAGE_SIZE) *)
ZeroPage == PageOf(PAGE_SIZE, <<>>)

(* bufmgr.create_page(): a zero-filled page with the next page id *)
create_page(pgs, drt) ==
    [pages |-> Append(pgs, ZeroPage), dirty |-> Append(drt, FALSE), page_id |-> Len(pgs)]

(* bufmgr.fetch_page(page_id).page *)
fetch_page(pgs, page_id) == pgs[page_id + 1]

NodeType(page) == UnpackI(PageSlice(page, 0, 4))

-----------------------------------------------------------------------------
(* BPlusTree *)

(* create tagging the root as a branch: struct.pack('>I', 1) *)
create_branch_root(pgs, drt) ==
    TheOne({
        [pages |-> [r.pages EXCEPT
                       ![m.page_id + 1] = SliceAssign(ZeroPage, 0, 8, PageIdToBytes(r.page_id)),
                       ![r.page_id + 1] = SliceAssign(ZeroPage, 0, 4, PackI(1))],
         dirty |-> [r.dirty EXCEPT ![m.page_id + 1] = TRUE, ![r.page_id + 1] = TRUE],
         meta_page_id |-> m.page_id]
        : m \in {create_page(pgs, drt)},
          r \in {create_page(Append(pgs, ZeroPage), Append(drt, FALSE))} })

(* create: the meta page and the root page are the two pages create_page
   hands out, in that order; the root is tagged a leaf, the meta page records
   the root's id, both are marked dirty *)
create(pgs, drt) ==
    TheOne({
        TheOne({
            [pages |-> [r.pages EXCEPT
                           ![m.page_id + 1] =
                               SliceAssign(fetch_page(r.pages, m.page_id), 0, 8,
                                           PageIdToBytes(r.page_id)),
                           ![r.page_id + 1] =
                               SliceAssign(fetch_page(r.pages, r.page_id), 0, 4, PackI(0))],
             dirty |-> [r.dirty EXCEPT ![m.page_id + 1] = TRUE, ![r.page_id + 1] = TRUE],
             meta_page_id |-> m.page_id]
            : r \in {create_page(m.pages, m.dirty)} })
        : m \in {create_page(pgs, drt)} })

(* fetch_root_page: the id of the page the meta page names *)
fetch_root_page(pgs, meta) == PageIdFromBytes(PageSlice(fetch_page(pgs, meta), 0, 8))

(* The leaf loop of search_internal: the first pair with the key *)
RECURSIVE FindPair(_, _)
FindPair(pairs, key) ==
    IF pairs = <<>> THEN None
    ELSE IF Head(pairs).key = key THEN <<Head(pairs).key, Head(pairs).value>>
    ELSE FindPair(Tail(pairs), key)

(* search_internal.  On a branch it calls self.get_branch, which the class
   does not define: AttributeError. *)
search_internal(pgs, node_id, key) ==
    TheOne({
        IF NodeType(page) = 0
        THEN TheOne({
                 IF gp.err # NoError THEN [err |-> gp.err, ret |-> None]
                 ELSE [err |-> NoError, ret |-> FindPair(gp.pairs, key)]
                 : gp \in {get_pairs(page)} })
        ELSE [err |-> "AttributeError", ret |-> None]
        : page \in {fetch_page(pgs, node_id)} })

search(pgs, meta, key) == search_internal(pgs, fetch_root_page(pgs, meta), key)

(* The duplicate scan stopping after the first pair *)
HasKey_first(pairs, key) == Len(pairs) > 0 /\ pairs[1].key = key

(* The duplicate scan of insert_internal *)
HasKey(pairs, key) == \E i \in 1..Len(pairs) : pairs[i].key = key

Returned(pgs, drt, err, new_child) ==
    [pages |-> pgs, dirty |-> drt, err |-> err, new_child |-> new_child]

(* insert_internal marking the page dirty before the duplicate scan *)
insert_internal_dirty_first(pgs, drt, node_id, key, value) ==
    TheOne({
        IF NodeType(page) # 0 THEN Returned(pgs, drt, "NotImplementedError", None)
        ELSE IF HasKey(gp.pairs, key)
        THEN Returned(pgs, [drt EXCEPT ![node_id + 1] = TRUE], "DuplicateKeyError", None)
        ELSE TheOne({
                 Returned([pgs EXCEPT ![node_id + 1] = set_leaf(page, pairs)],
                          [drt EXCEPT ![node_id + 1] = TRUE], NoError, None)
                 : pairs \in {SortPairs(Append(gp.pairs, Pair(key, value)))} })
        : page \in {fetch_page(pgs, node_id)},
          gp \in {get_pairs(fetch_page(pgs, node_id))} })

(* insert_internal reporting a pending split for a leaf left over capacity,
   without splitting it *)
insert_internal_pending(pgs, drt, node_id, key, value) ==
    TheOne({
        IF NodeType(page) # 0 THEN Returned(pgs, drt, "NotImplementedError", None)
        ELSE IF HasKey(gp.pairs, key) THEN Returned(pgs, drt, "DuplicateKeyError", None)
        ELSE TheOne({
                 Returned([pgs EXCEPT ![node_id + 1] = set_leaf(page, pairs)],
                          [drt EXCEPT ![node_id + 1] = TRUE], NoError,
                          IF Len(pairs) > LEAF_NODE_MAX_PAIRS
                          THEN <<pairs[Len(pairs)].key, node_id>> ELSE None)
                 : pairs \in {SortPairs(Append(gp.pairs, Pair(key, value)))} })
        : page \in {fetch_page(pgs, node_id)},
          gp \in {get_pairs(fetch_page(pgs, node_id))} })

(* insert_internal without its node_buffer.is_dirty = True *)
insert_internal_clean(pgs, drt, node_id, key, value) ==
    TheOne({
        IF NodeType(page) # 0 THEN Returned(pgs, drt, "NotImplementedError", None)
        ELSE IF HasKey(gp.pairs, key) THEN Returned(pgs, drt, "DuplicateKeyError", None)
        ELSE TheOne({
                 Returned([pgs EXCEPT ![node_id + 1] = set_leaf(page, pairs)],
                          drt, NoError, None)
                 : pairs \in {SortPairs(Append(gp.pairs, Pair(key, value)))} })
        : page \in {fetch_page(pgs, node_id)},
          gp \in {get_pairs(fetch_page(pgs, node_id))} })

(* insert_internal: [pages, dirty, err, new_child].  It returns None or
   raises; on a branch node it raises NotImplementedError. *)
insert_internal(pgs, drt, node_id, key, value) ==
    TheOne({
        IF NodeType(page) = 0
        THEN TheOne({
                 IF gp.err # NoError THEN Returned(pgs, drt, gp.err, None)
                 ELSE IF HasKey(gp.pairs, key)
                 THEN Returned(pgs, drt, "DuplicateKeyError", None)
                 ELSE TheOne({
                          Returned([pgs EXCEPT ![node_id + 1] = set_leaf(page, pairs)],
                                   [drt EXCEPT ![node_id + 1] = TRUE], NoError, None)
                          : pairs \in {SortPairs(Append(gp.pairs, Pair(key, value)))} })
                 : gp \in {get_pairs(page)} })
        ELSE Returned(pgs, drt, "NotImplementedError", None)
        : page \in {fetch_page(pgs, node_id)} })

(* insert without its `if new_child is not None`: the new root is allocated
   and the meta page rewritten after every insertion, and unpacking None then
   raises TypeError *)
insert_always_grows(pgs, drt, meta, key, value) ==
    TheOne({
        IF r.err # NoError THEN [pages |-> r.pages, dirty |-> r.dirty, err |-> r.err]
        ELSE TheOne({
                 [pages |-> [n.pages EXCEPT
                                ![n.page_id + 1] =
                                    SliceAssign(fetch_page(n.pages, n.page_id), 0, 4, PackI(1)),
                                ![meta + 1] =
                                    SliceAssign(fetch_page(n.pages, meta), 0, 8,
                                                PageIdToBytes(n.page_id))],
                  dirty |-> [n.dirty EXCEPT ![n.page_id + 1] = TRUE, ![meta + 1] = TRUE],
                  err |-> "TypeError"]
                 : n \in {create_page(r.pages, r.dirty)} })
        : r \in {insert_internal(pgs, drt, fetch_root_page(pgs, meta), key, value)} })

(* insert: [pages, dirty, err].  With a pending split it allocates the new
   root, tags it as a branch, rewrites the meta page and then calls
   self.set_branch, which the class does not define: AttributeError. *)
insert(pgs, drt, meta, key, value) ==
    TheOne({
        IF r.err # NoError THEN [pages |-> r.pages, dirty |-> r.dirty, err |-> r.err]
        ELSE IF r.new_child # None
        THEN TheOne({
                 [pages |-> [n.pages EXCEPT
                                ![n.page_id + 1] =
                                    SliceAssign(fetch_page(n.pages, n.page_id), 0, 4, PackI(1)),
                                ![meta + 1] =
                                    SliceAssign(fetch_page(n.pages, meta), 0, 8,
                                                PageIdToBytes(n.page_id))],
                  dirty |-> [n.dirty EXCEPT ![n.page_id + 1] = TRUE, ![meta + 1] = TRUE],
                  err |-> "AttributeError"]
                 : n \in {create_page(r.pages, r.dirty)} })
        ELSE [pages |-> r.pages, dirty |-> r.dirty, err |-> NoError]
        : r \in {insert_internal(pgs, drt, fetch_root_page(pgs, meta), key, value)} })

-----
(* Inputs *)

AllKeys == << <<2>>, <<1, 0>>, <<>>, <<1>>, <<255>>, <<1, 0, 0>>, <<0>> >>

Keys == {AllKeys[i] : i \in 1..Min(MaxKeys, Len(AllKeys))}

Values == {<<>>, <<111, 110, 101>>}

-----------------------------------------------------------------------------
(* The tree behind its public surface: create, search, insert *)

Op(op, key, value, err, ret) ==
    [op |-> op, key |-> key, value |-> value, err |-> err, ret |-> ret]

(* n pages of the pool are in use by others when the tree is created *)
Created(n) == create([i \in 1..n |-> ZeroPage], [i \in 1..n |-> FALSE])

Init ==
    \E n \in 0..MaxPrePages : \E c \in {Created(n)} :
        /\ pages = c.pages
        /\ dirty = c.dirty
        /\ meta_page_id = c.meta_page_id
        /\ last = Op("create", NoBytes, NoBytes, NoError, None)
        /\ inserted = {}
        /\ pc = 0

Insert(key, value) ==
    \E r \in {insert(pages, dirty, meta_page_id, key, value)} :
        /\ pages' = r.pages
        /\ dirty' = r.dirty
        /\ last' = Op("insert", key, value, r.err, None)
        /\ inserted' = IF r.err = NoError THEN inserted \cup {<<key, value>>} ELSE inserted
        /\ UNCHANGED <<meta_page_id, pc>>

(* A search that marks the root page it fetched dirty *)
Search_dirty(key) ==
    \E r \in {search(pages, meta_page_id, key)} :
        /\ last' = Op("search", key, NoBytes, r.err, r.ret)
        /\ dirty' = [dirty EXCEPT ![fetch_root_page(pages, meta_page_id) + 1] = TRUE]
        /\ UNCHANGED <<pages, meta_page_id, inserted, pc>>

Search(key) ==
    \E r \in {search(pages, meta_page_id, key)} :
        /\ last' = Op("search", key, NoBytes, r.err, r.ret)
        /\ UNCHANGED <<pages, dirty, meta_page_id, inserted, pc>>

(* The buffer pool writes the dirty pages out and clears their flags *)
Flush ==
    /\ \E i \in 1..Len(dirty) : dirty[i]
    /\ dirty' = [i \in 1..Len(dirty) |-> FALSE]
    /\ last' = Op("flush", NoBytes, NoBytes, NoError, None)
    /\ UNCHANGED <<pages, meta_page_id, inserted, pc>>

Next ==
    \/ \E key \in Keys, value \in Values : Insert(key, value)
    \/ \E key \in Keys : Search(key)
    \/ Flush

Spec == Init /\ [][Next]_vars

-----------------------------------------------------------------------------
(* What a caller can observe of a state *)

RootId == fetch_root_page(pages, meta_page_id)

RootPage == fetch_page(pages, RootId)

(* The pages the tree has allocated after its meta page *)
NodePages == {p \in 0..(Len(pages) - 1) : p > meta_page_id}

(* bytes 4..8 of a node page: its entry count *)
NodeCount(page) == UnpackI(PageSlice(page, 4, 8))

SearchKeys == {AllKeys[i] : i \in 1..Len(AllKeys)}

Found(key, value) == [err |-> NoError, ret |-> <<key, value>>]

NotFound == [err |-> NoError, ret |-> None]

StrictlyAscending(pairs) ==
    \A i \in 1..(Len(pairs) - 1) : BytesLess(pairs[i].key, pairs[i + 1].key)

-----------------------------------------------------------------------------
(* C1: lookup correctness.  In every state, search(k) returns (k, v) for every
   key k whose insert(k, v) completed without error, with the v of that
   insert, and returns None for every key no insert completed for. *)
C1_LookupCorrect ==
    \A key \in SearchKeys :
        /\ \A value \in Values :
              <<key, value>> \in inserted => search(pages, meta_page_id, key) = Found(key, value)
        /\ (\A value \in Values : <<key, value>> \notin inserted)
              => search(pages, meta_page_id, key) = NotFound

C1_Witness ==
    /\ Cardinality(inserted) >= 2
    /\ last.op = "search"
    /\ last.ret # None
    /\ \E key \in Keys : search(pages, meta_page_id, key) = NotFound

(* C2: duplicate rejection.  An insert of a key the tree already holds ends
   with DuplicateKeyError, and every search returns after it what it returned
   before it. *)
C2_DuplicateRejected ==
    [][(last'.op = "insert" /\ search(pages, meta_page_id, last'.key).ret # None)
          => /\ last'.err = "DuplicateKeyError"
             /\ \A key \in SearchKeys :
                   search(pages', meta_page_id', key) = search(pages, meta_page_id, key)]_vars

C2_Witness ==
    /\ last.op = "insert"
    /\ last.err = "DuplicateKeyError"
    /\ \E value \in Values :
          value # last.value /\ search(pages, meta_page_id, last.key) = Found(last.key, value)

(* C3: node capacity.  After every completed insert no leaf holds more than
   LEAF_NODE_MAX_PAIRS pairs and no branch more than BRANCH_NODE_MAX_KEYS
   separators. *)
C3_NodeCapacity ==
    \A p \in NodePages :
        LET page == fetch_page(pages, p)
        IN  NodeCount(page) <= (IF NodeType(page) = 0 THEN LEAF_NODE_MAX_PAIRS
                                ELSE BRANCH_NODE_MAX_KEYS)

(* C5: sort invariant.  The pairs of every leaf are strictly ascending by key
   in byte order.  No reachable state holds a branch page (every node page is
   a leaf), so there is no separator list to be out of order. *)
C5_SortInvariant ==
    \A p \in NodePages :
        LET page == fetch_page(pages, p)
        IN  /\ NodeType(page) = 0
            /\ get_pairs(page).err = NoError
            /\ StrictlyAscending(get_pairs(page).pairs)

C5_Witness ==
    /\ last.op = "insert"
    /\ last.err = NoError
    /\ Len(get_pairs(RootPage).pairs) >= 2
    /\ get_pairs(RootPage).pairs[1].key = last.key

(* C6: balance.  The root the meta page names is itself a leaf, so every leaf
   reachable from it is at the same depth, 0, after successful and failed
   inserts alike. *)
C6_Balanced == RootId \in NodePages /\ NodeType(RootPage) = 0

C6_Witness ==
    /\ last.op = "insert"
    /\ last.err = "DuplicateKeyError"
    /\ Cardinality(inserted) > LEAF_NODE_MAX_PAIRS

(* C7: the fresh tree.  Until an insert completes, the meta page names a root
   page that is a leaf with entry count 0, and search of any key returns None
   without an error. *)
C7_FreshTree ==
    inserted = {} =>
        /\ RootId \in NodePages
        /\ NodeType(RootPage) = 0
        /\ NodeCount(RootPage) = 0
        /\ \A key \in SearchKeys : search(pages, meta_page_id, key) = NotFound

C7_Witness ==
    /\ inserted = {}
    /\ last = Op("search", AllKeys[1], NoBytes, NoError, None)

(* C8: all-or-nothing.  An insert that ends with an error leaves every page's
   bytes and every dirty flag as they were, and the meta page still names a
   leaf the codec reads. *)
C8_AllOrNothing ==
    [][(last'.op = "insert" /\ last'.err # NoError)
          => /\ pages' = pages
             /\ dirty' = dirty
             /\ get_pairs(fetch_page(pages', fetch_root_page(pages', meta_page_id'))).err
                   = NoError]_vars

C8_Witness ==
    /\ last.op = "insert"
    /\ last.err # NoError
    /\ \A i \in 1..Len(dirty) : ~dirty[i]

-----------------------------------------------------------------------------
(* The demonstration of __main__: create on a fresh pool, seven inserts, then
   searches.  pc counts the inserts done; -1 after an insert raised. *)

(* struct.pack('>Q', n): eight bytes, big-endian (0 <= n < 2^31 here) *)
PackQ(n) == [i \in 1..8 |-> IF i >= 5 THEN (n \div (256 ^ (8 - i))) % 256 ELSE 0]

DemoKeys == <<1, 4, 6, 3, 7, 2, 5>>

(* b"one", b"two", b"three", b"four", b"five", b"six", b"seven" *)
DemoWords ==
    << <<111, 110, 101>>, <<116, 119, 111>>, <<116, 104, 114, 101, 101>>,
       <<102, 111, 117, 114>>, <<102, 105, 118, 101>>, <<115, 105, 120>>,
       <<115, 101, 118, 101, 110>> >>

(* The value of the i-th insert: the word of the source or the digit i, so
   the seven values are distinct whichever is taken *)
DemoValues(i) == {DemoWords[i], <<48 + i>>}

DemoSearchKeys == {PackQ(n) : n \in 1..8}

DemoInit ==
    /\ \E c \in {Created(0)} :
          /\ pages = c.pages
          /\ dirty = c.dirty
          /\ meta_page_id = c.meta_page_id
    /\ last = Op("create", NoBytes, NoBytes, NoError, None)
    /\ inserted = {}
    /\ pc = 0

DemoInsert ==
    /\ pc >= 0
    /\ pc < Len(DemoKeys)
    /\ \E value \in DemoValues(pc + 1), key \in {PackQ(DemoKeys[pc + 1])} :
          \E r \in {insert(pages, dirty, meta_page_id, key, value)} :
              /\ pages' = r.pages
              /\ dirty' = r.dirty
              /\ last' = Op("insert", key, value, r.err, None)
              /\ inserted' = IF r.err = NoError THEN inserted \cup {<<key, value>>}
                             ELSE inserted
              /\ pc' = IF r.err = NoError THEN pc + 1 ELSE -1
    /\ UNCHANGED meta_page_id

DemoSearch ==
    /\ pc = Len(DemoKeys)
    /\ \E key \in DemoSearchKeys :
          \E r \in {search(pages, meta_page_id, key)} :
              last' = Op("search", key, NoBytes, r.err, r.ret)
    /\ UNCHANGED <<pages, dirty, meta_page_id, inserted, pc>>

DemoNext == DemoInsert \/ DemoSearch

SpecDemo == DemoInit /\ [][DemoNext]_vars

(* C4: the scenario 1,4,6,3,7,2,5.  Once the seven inserts are done, each has
   completed without error, search(3) returns its value, search(8) returns
   None, and the root the meta page names is a branch node (height > 1). *)
C4_Scenario ==
    pc = Len(DemoKeys) =>
        /\ Cardinality(inserted) = Len(DemoKeys)
        /\ \E value \in DemoValues(4) :
              /\ <<PackQ(3), value>> \in inserted
              /\ search(pages, meta_page_id, PackQ(3)) = Found(PackQ(3), value)
        /\ search(pages, meta_page_id, PackQ(8)) = NotFound
        /\ NodeType(RootPage) = 1

-----------------------------------------------------------------------------
(* The leaf codec on its own: set_leaf of a list of pairs onto a page that
   holds anything, then get_pairs of that page. *)

CodecPairs == {Pair(key, value) : key \in Keys, value \in Values}

PairLists == UNION {[1..n -> CodecPairs] : n \in 0..MaxListLen}

(* What the page held before: zeros, a longer leaf, or 255 in every byte *)
PriorPages ==
    { ZeroPage,
      set_leaf(ZeroPage, [i \in 1..(MaxListLen + 1) |-> Pair(AllKeys[i], <<111, 110, 101>>)]),
      PageOf(PAGE_SIZE, [i \in 1..PAGE_SIZE |-> 255]) }

CodecOp(op, pairs, ret) == [op |-> op, pairs |-> pairs, ret |-> ret]

CodecInit ==
    /\ \E prior \in PriorPages : pages = <<prior>>
    /\ \E pairs \in PairLists : last = CodecOp("page", pairs, None)
    /\ dirty = <<FALSE>>
    /\ meta_page_id = 0
    /\ inserted = {}
    /\ pc = 0

CodecWrite ==
    /\ last.op = "page"
    /\ pages' = <<set_leaf(pages[1], last.pairs)>>
    /\ last' = CodecOp("set_leaf", last.pairs, None)
    /\ UNCHANGED <<dirty, meta_page_id, inserted, pc>>

CodecRead ==
    /\ last.op = "set_leaf"
    /\ last' = CodecOp("get_pairs", last.pairs, get_pairs(pages[1]))
    /\ UNCHANGED <<pages, dirty, meta_page_id, inserted, pc>>

CodecNext == CodecWrite \/ CodecRead

SpecCodec == CodecInit /\ [][CodecNext]_vars

(* C9: leaf codec round trip.  For a list of pairs whose serialization fits in
   one page, get_pairs after set_leaf returns the same pairs in the same
   order and number, whatever the page held before. *)
C9_LeafRoundTrip ==
    (last.op = "get_pairs" /\ LeafSize(last.pairs) <= PAGE_SIZE)
        => last.ret = [err |-> NoError, pairs |-> last.pairs]

C9_Witness ==
    /\ last.op = "get_pairs"
    /\ Len(last.pairs) = 2
    /\ BytesLess(last.pairs[2].key, last.pairs[1].key)
    /\ last.pairs[2].key = last.pairs[2].value
    /\ last.ret.pairs = last.pairs
    /\ pages[1].size = PAGE_SIZE
    /\ Len(pages[1].data) = PAGE_SIZE

-----------------------------------------------------------------------------
(* C10: root growth.  An insert into a root leaf that already holds
   LEAF_NODE_MAX_PAIRS pairs is the insertion that hands insert a pending
   split; insert then completes with the meta page naming a page allocated by
   this call that is a branch node with one separator. *)
C10_RootGrowth ==
    [][(/\ last'.op = "insert"
        /\ last'.err = NoError
        /\ NodeType(RootPage) = 0
        /\ NodeCount(RootPage) >= LEAF_NODE_MAX_PAIRS)
          => LET new_root == fetch_root_page(pages', meta_page_id')
             IN  /\ new_root >= Len(pages)
                 /\ new_root < Len(pages')
                 /\ NodeType(fetch_page(pages', new_root)) = 1
                 /\ NodeCount(fetch_page(pages', new_root)) = 1]_vars

-----------------------------------------------------------------------------
(* A handle opened with BPlusTree(meta_page_id) on a pool that already holds a
   tree: a single root leaf, or a tree whose root has grown into a branch
   node.  Nothing is dirty when the pool is opened. *)

(* The leaves a pool can hold: strictly ascending lists of pairs *)
OpenLeaves == {pairs \in PairLists : StrictlyAscending(pairs)}

(* The bytes after the type tag of a root branch page.  The class reads none
   of them: zeros, or an entry count of one followed by zeros. *)
BranchBodies == { <<>>, PackI(1) }

(* The pool create leaves, with `pairs` written to its root leaf *)
LeafRooted(pairs) ==
    TheOne({
        [pages |-> [c.pages EXCEPT ![Len(c.pages)] = set_leaf(@, pairs)],
         dirty |-> [i \in 1..Len(c.pages) |-> FALSE],
         meta_page_id |-> c.meta_page_id]
        : c \in {Created(0)} })

(* The pool after a root split: a new page tagged as a branch, its body
   `rest`, and the meta page rewritten to name it (the new-root code of
   insert) *)
BranchRooted(pairs, rest) ==
    TheOne({
        [pages |-> [n.pages EXCEPT
                       ![n.page_id + 1] =
                           SliceAssign(SliceAssign(fetch_page(n.pages, n.page_id),
                                                   0, 4, PackI(1)),
                                       4, 4 + Len(rest), rest),
                       ![t.meta_page_id + 1] =
                           SliceAssign(fetch_page(n.pages, t.meta_page_id), 0, 8,
                                       PageIdToBytes(n.page_id))],
         dirty |-> [i \in 1..Len(n.pages) |-> FALSE],
         meta_page_id |-> t.meta_page_id]
        : t \in {LeafRooted(pairs)},
          n \in {create_page(LeafRooted(pairs).pages, LeafRooted(pairs).dirty)} })

OpenInit ==
    \E pairs \in OpenLeaves :
        \E t \in {LeafRooted(pairs)} \cup {BranchRooted(pairs, rest) : rest \in BranchBodies} :
            /\ pages = t.pages
            /\ dirty = t.dirty
            /\ meta_page_id = t.meta_page_id
            /\ last = Op("open", NoBytes, NoBytes, NoError, None)
            /\ inserted = {<<pairs[i].key, pairs[i].value>> : i \in 1..Len(pairs)}
            /\ pc = 0

SpecOpen == OpenInit /\ [][Next]_vars

(* C11: insert below a branch root.  An insert that finds a branch node at the
   root completes without an error. *)
C11_BranchInsert ==
    (last.op = "insert" /\ NodeType(RootPage) # 0 /\ last.key \notin {kv[1] : kv \in inserted})
        => last.err = NoError

-----------------------------------------------------------------------------
(* C12: leaf split.  insert_internal of a new key on the root leaf: when the
   leaf would hold more than LEAF_NODE_MAX_PAIRS pairs, the leaf keeps the
   lowest ceil((LEAF_NODE_MAX_PAIRS + 1) / 2) pairs, one page is allocated for
   the rest, and the call returns (first key of the new page, its page id);
   otherwise it returns None. *)
C12_LeafSplit ==
    \A key \in Keys :
        \A r \in {insert_internal(pages, dirty, RootId, key, NoBytes)} :
            r.err = NoError =>
                IF NodeCount(RootPage) + 1 > LEAF_NODE_MAX_PAIRS
                THEN /\ Len(r.pages) = Len(pages) + 1
                     /\ NodeCount(fetch_page(r.pages, RootId))
                           = (LEAF_NODE_MAX_PAIRS + 2) \div 2
                     /\ NodeCount(fetch_page(r.pages, Len(pages)))
                           = NodeCount(RootPage) + 1 - (LEAF_NODE_MAX_PAIRS + 2) \div 2
                     /\ r.new_child
                           = <<get_pairs(fetch_page(r.pages, Len(pages))).pairs[1].key,
                               Len(pages)>>
                ELSE r.new_child = None

-----------------------------------------------------------------------------
(* C13: descent.  A search that finds a branch node at the root follows a
   child (the first whose separator is greater than the key, else the last)
   and ends at a leaf: it returns a pair or None, without an error. *)
C13_Descent ==
    (last.op = "search" /\ NodeType(RootPage) # 0) => last.err = NoError

-----------------------------------------------------------------------------
(* C14: dirty marking.  After create, every page that no longer holds the
   zeros it was allocated with is dirty; after an insert that returned
   normally, every page it allocated and every page whose bytes it changed is
   dirty. *)
C14_DirtyAfterWrite ==
    /\ \A i \in 1..Len(pages) : pages[i] # ZeroPage => dirty[i]
    /\ [][(last'.op = "insert" /\ last'.err = NoError)
             => \A i \in 1..Len(pages') :
                    (i > Len(pages) \/ pages'[i] # pages[i]) => dirty'[i]]_vars

(* An insert into a flushed pool: the leaf it rewrote is dirty again, the meta
   page it did not touch is still clean *)
C14_Witness ==
    /\ last.op = "insert"
    /\ last.err = NoError
    /\ dirty[RootId + 1]
    /\ ~dirty[meta_page_id + 1]

-----------------------------------------------------------------------------
(* Inserts of long values: BigLen bytes of 'a' *)

BigLen == 2040

BigValue == [i \in 1..BigLen |-> 97]

BigValues == {NoBytes, BigValue}

BigNext ==
    \/ \E key \in Keys, value \in BigValues : Insert(key, value)
    \/ \E key \in Keys : Search(key)

SpecBig == Init /\ [][BigNext]_vars

(* C15: the leaf fits its page.  After an insert that returned normally, the
   root leaf's page still has PAGE_SIZE bytes and the serialized form of the
   pairs it holds (8 header bytes, then a 4-byte length and the pickle per
   pair) is no longer than PAGE_SIZE. *)
C15_LeafFits ==
    (last.op = "insert" /\ last.err = NoError)
        => /\ RootPage.size = PAGE_SIZE
           /\ LeafSize(get_pairs(RootPage).pairs) <= PAGE_SIZE

-----------------------------------------------------------------------------
(* C16: search is read-only.  A search, whether it finds the key, finds
   nothing or raises, leaves every page's bytes, every dirty flag, the root id
   in the meta page and the handle's meta_page_id as they were, and allocates
   no page. *)
C16_SearchReadOnly ==
    [][last'.op = "search"
          => /\ pages' = pages
             /\ dirty' = dirty
             /\ Len(pages') = Len(pages)
             /\ meta_page_id' = meta_page_id
             /\ fetch_root_page(pages', meta_page_id') = RootId]_vars

(* A search that found nothing in a non-empty tree whose root leaf is dirty
   and whose meta page is clean *)
C16_Witness ==
    /\ last.op = "search"
    /\ last.err = NoError
    /\ last.ret = None
    /\ inserted # {}
    /\ dirty[RootId + 1]
    /\ ~dirty[meta_page_id + 1]

-----------------------------------------------------------------------------
(* C17: the meta page's frame.  No step changes the handle's meta_page_id; the
   root id in the meta page changes only in an insert whose insert_internal on
   the root returned a pending split; an insert whose insert_internal raised
   or returned None leaves the meta page's bytes as they were and allocates
   no page. *)
C17_MetaFrame ==
    [][/\ meta_page_id' = meta_page_id
       /\ fetch_root_page(pages', meta_page_id') # RootId
             => /\ last'.op = "insert"
                /\ insert_internal(pages, dirty, RootId, last'.key, last'.value).new_child
                      # None
       /\ (/\ last'.op = "insert"
           /\ insert_internal(pages, dirty, RootId, last'.key, last'.value).new_child = None)
             => /\ fetch_page(pages', meta_page_id) = fetch_page(pages, meta_page_id)
                /\ Len(pages') = Len(pages)]_vars

(* An insert that left the root leaf over capacity, with the meta page still
   naming the page create allocated and no page added *)
C17_Witness ==
    /\ last.op = "insert"
    /\ last.err = NoError
    /\ NodeCount(RootPage) > LEAF_NODE_MAX_PAIRS
    /\ RootId = meta_page_id + 1
    /\ Len(pages) = meta_page_id + 2

====
